---- MODULE Spec2Model ----
(***************************************************************************)
(* Model of the ECG contrastive-learning repository:                       *)
(*   - SimCLR.contrastive_loss (src/Simclr.py): the pairing index built    *)
(*     from the patient identities and the accumulation of the loss terms  *)
(*     over the view combinations;                                         *)
(*   - SimCLR.train (src/Simclr.py): the epoch loop, the batch steps, the  *)
(*     non-finite detection points, scheduler stepping and checkpointing;  *)
(*   - BaselineConvNet.forward (src/Networks.py): the shape of the output. *)
(* Tensors are modelled by their shapes and by whether they are finite;    *)
(* identities are strings, modelled as sequences of characters.            *)
(***************************************************************************)
EXTENDS Integers, Sequences, FiniteSets

VARIABLES
    \* ---- contrastive_loss ----
    patientIds,         \* the identity vector, one string per batch row
    nviews,             \* features.shape[1]
    lpc,                \* position in contrastive_loss
    rows1, cols1,       \* np.where(np.triu(..., k=1))
    rows2, cols2,       \* np.where(np.tril(..., k=-1))
    view_combinations,  \* the view pairs not yet iterated
    loss,               \* the terms added to loss so far
    loss_terms,         \* 0 while the name is unbound
    ncombinations,
    divisor,            \* loss_terms*ncombinations of line 148, 0 before
    \* ---- BaselineConvNet.forward ----
    classification,     \* self.classification
    avg_embeddings,     \* self.avg_embeddings
    training,           \* nn.Module.training
    x_shape,            \* the shape of the input, <<batch, channels, length>>
    npc,                \* position in forward
    h_shape,            \* the shape of the returned tensor
    \* ---- SimCLR.train ----
    curr_epochs, epochs, warmup_epochs, checkpoint_freq,   \* configuration
    nbatches,           \* len(train_loader)
    tpc,                \* position in train
    epoch_iter,         \* the next value of range(curr_epochs+1, epochs)
    epoch_counter,      \* 0 while the name is unbound
    epochs_run,         \* iterations of the epoch loop entered
    batch_idx,          \* batches of the current epoch taken from the loader
    n_iter,
    zero_grads,         \* calls of optimizer.zero_grad()
    opt_steps,          \* calls of optimizer.step()
    max_norm,           \* the ceiling of the last clip_grad_norm_, 0 before
    sched_epochs,       \* epoch_counter at each scheduler.step()
    gated_epochs,       \* epoch_counter at each evaluation of line 225
    checkpoints,        \* epoch_counter at each save_checkpoint
    trace,              \* the steps of the current batch, in order
    printed,            \* detection points reported in the current batch
    images_bad,         \* images1/images2 hold a nan or an inf
    features_bad,       \* features holds a nan or an inf
    loss_bad            \* loss is nan or inf

lossVars == <<patientIds, nviews, lpc, rows1, cols1, rows2, cols2,
              view_combinations, loss, loss_terms, ncombinations, divisor>>

netVars == <<classification, avg_embeddings, training, x_shape, npc, h_shape>>

trainConfig == <<curr_epochs, epochs, warmup_epochs, checkpoint_freq, nbatches>>

trainVars == <<trainConfig, tpc, epoch_iter, epoch_counter, epochs_run, batch_idx,
               n_iter, zero_grads, opt_steps, max_norm, sched_epochs,
               gated_epochs, checkpoints, trace, printed,
               images_bad, features_bad, loss_bad>>

vars == <<lossVars, netVars, trainVars>>

----------------------------------------------------------------------------
(* Bounds of the model *)

MaxBatch == 4
MaxViews == 3
MaxSeqLen == 250
MaxCurrEpochs == 1
MaxEpochs == 4
MaxWarmup == 2
MaxCheckpointFreq == 2
MaxLoaderLen == 2

----------------------------------------------------------------------------
(* Identities: strings, as sequences of characters.                        *)

Dash == "-"

\* the identities the batches are drawn from: "x", "x-x", "x-x-x" and "y"
PidPool ==
    { <<"x">>,
      <<"x", Dash, "x">>,
      <<"x", Dash, "x", Dash, "x">>,
      <<"y">> }

----------------------------------------------------------------------------
(* contrastive_loss, lines 95-102: the pairing index                       *)

\* pid1 + '-' + pid2 on strings
Concat(a, b) == a \o <<Dash>> \o b

\* np.meshgrid(pids, pids): pid1[i][j] = pids[j], pid2[i][j] = pids[i]
\* (rows and columns are numbered from 0 as in the source)
Meshgrid1(pids) ==
    [i \in 0..(Len(pids) - 1) |-> [j \in 0..(Len(pids) - 1) |-> pids[j + 1]]]

Meshgrid2(pids) ==
    [i \in 0..(Len(pids) - 1) |-> [j \in 0..(Len(pids) - 1) |-> pids[i + 1]]]

pid_matrix(pids) ==
    LET pid1 == Meshgrid1(pids)
        pid2 == Meshgrid2(pids)
    IN  [i \in 0..(Len(pids) - 1) |-> [j \in 0..(Len(pids) - 1) |->
            Concat(pid1[i][j], pid2[i][j])]]

\* np.unique(pids+'-'+pids), as the set of its elements
pids_of_interest(pids) == {Concat(pids[k], pids[k]) : k \in 1..Len(pids)}

\* np.isin(pid_matrix, pids_of_interest).astype(int)
bool_matrix_of_interest(pids) ==
    LET matrix == pid_matrix(pids)
        of_interest == pids_of_interest(pids)
    IN  [i \in 0..(Len(pids) - 1) |-> [j \in 0..(Len(pids) - 1) |->
            IF matrix[i][j] \in of_interest THEN 1 ELSE 0]]

\* variant of Triu with the offset one too small: the diagonal is kept
TriuAlt(m, n, k) ==
    [i \in 0..(n - 1) |-> [j \in 0..(n - 1) |->
        IF j - i >= k - 1 THEN m[i][j] ELSE 0]]

\* np.triu(m, k): keeps the cells with j - i >= k
Triu(m, n, k) ==
    [i \in 0..(n - 1) |-> [j \in 0..(n - 1) |->
        IF j - i >= k THEN m[i][j] ELSE 0]]

\* np.tril(m, k): keeps the cells with j - i <= k
Tril(m, n, k) ==
    [i \in 0..(n - 1) |-> [j \in 0..(n - 1) |->
        IF j - i <= k THEN m[i][j] ELSE 0]]

\* the cells of an n x n matrix in row-major order
AllCells(n) == [c \in 1..(n * n) |-> <<(c - 1) \div n, (c - 1) % n>>]

\* np.where(m): the coordinates of the nonzero cells, row-major,
\* as the pair <<rows, cols>>
Where(m, n) ==
    LET nz == SelectSeq(AllCells(n), LAMBDA rc : m[rc[1]][rc[2]] # 0)
    IN  << [k \in 1..Len(nz) |-> nz[k][1]], [k \in 1..Len(nz) |-> nz[k][2]] >>

\* lines 101-102
UpperIndex(pids) ==
    Where(Triu(bool_matrix_of_interest(pids), Len(pids), 1), Len(pids))

LowerIndex(pids) ==
    Where(Tril(bool_matrix_of_interest(pids), Len(pids), 0 - 1), Len(pids))

\* the set of (row, col) pairs of an index
Pairs(rows, cols) == {<<rows[k], cols[k]>> : k \in 1..Len(rows)}

----------------------------------------------------------------------------
(* contrastive_loss, lines 104-148: the loss terms                         *)

\* itertools.combinations(set(range(n)), 2), in iteration order
Combinations2(n) ==
    LET all == [c \in 1..(n * n) |-> <<(c - 1) \div n, (c - 1) % n>>]
    IN  SelectSeq(all, LAMBDA p : p[1] < p[2])

\* variant of LossTerms that counts the four terms whether added or not
LossTermsAlt(r1, r2) == 4

\* lines 138-145: the term count of one view pair
LossTerms(r1, r2) ==
    2 + (IF Len(r1) > 0 THEN 1 ELSE 0) + (IF Len(r2) > 0 THEN 1 ELSE 0)

\* lines 131-145: the terms one view pair adds to loss; a term is the mean
\* over a selection and is not a number (nan) when the selection is empty
TermsAdded(lead1, lead2, r1, r2, n) ==
    LET Term(name, selected) ==
            [term |-> name, lead1 |-> lead1, lead2 |-> lead2, nan |-> selected = 0]
        \* lines 131-135: the four terms are computed for every view pair
        loss_diag1 == Term("loss_diag1", n)
        loss_diag2 == Term("loss_diag2", n)
        loss_triu == Term("loss_triu", Len(r1))
        loss_tril == Term("loss_tril", Len(r2))
    IN  \* lines 137-145
        <<loss_diag1, loss_diag2>>
        \o (IF Len(r1) > 0 THEN <<loss_triu>> ELSE <<>>)
        \o (IF Len(r2) > 0 THEN <<loss_tril>> ELSE <<>>)

LossStart ==
    /\ patientIds \in UNION {[1..n -> PidPool] : n \in 1..MaxBatch}
    /\ nviews \in 1..MaxViews
    /\ lpc = "start"
    /\ rows1 = <<>> /\ cols1 = <<>>
    /\ rows2 = <<>> /\ cols2 = <<>>
    /\ view_combinations = <<>>
    /\ loss = <<>>
    /\ loss_terms = 0
    /\ ncombinations = 0
    /\ divisor = 0

\* lines 95-108
BuildIndex ==
    /\ lpc = "start"
    /\ rows1' = UpperIndex(patientIds)[1]
    /\ cols1' = UpperIndex(patientIds)[2]
    /\ rows2' = LowerIndex(patientIds)[1]
    /\ cols2' = LowerIndex(patientIds)[2]
    /\ view_combinations' = Combinations2(nviews)
    /\ loss' = <<>>
    /\ ncombinations' = 0
    /\ lpc' = "loop"
    /\ UNCHANGED <<patientIds, nviews, loss_terms, divisor>>

\* lines 110-146: one iteration of the loop over the view pairs
LossIteration ==
    /\ lpc = "loop"
    /\ view_combinations # <<>>
    /\ LET lead1 == Head(view_combinations)[1]
           lead2 == Head(view_combinations)[2]
       IN  loss' = loss \o TermsAdded(lead1, lead2, rows1, rows2, Len(patientIds))
    /\ loss_terms' = LossTerms(rows1, rows2)
    /\ ncombinations' = ncombinations + 1
    /\ view_combinations' = Tail(view_combinations)
    /\ UNCHANGED <<patientIds, nviews, lpc, rows1, cols1, rows2, cols2, divisor>>

\* line 148 with at least one view pair iterated
LossReturn ==
    /\ lpc = "loop"
    /\ view_combinations = <<>>
    /\ loss_terms # 0
    /\ divisor' = loss_terms * ncombinations
    /\ lpc' = "done"
    /\ UNCHANGED <<patientIds, nviews, rows1, cols1, rows2, cols2,
                   view_combinations, loss, loss_terms, ncombinations>>

\* line 148 with no view pair: loss_terms is unbound, UnboundLocalError
LossUnbound ==
    /\ lpc = "loop"
    /\ view_combinations = <<>>
    /\ loss_terms = 0
    /\ lpc' = "error"
    /\ UNCHANGED <<patientIds, nviews, rows1, cols1, rows2, cols2,
                   view_combinations, loss, loss_terms, ncombinations, divisor>>

\* contrastive_loss not called
LossIdle ==
    /\ patientIds = <<>>
    /\ nviews = 0
    /\ lpc = "idle"
    /\ rows1 = <<>> /\ cols1 = <<>>
    /\ rows2 = <<>> /\ cols2 = <<>>
    /\ view_combinations = <<>>
    /\ loss = <<>>
    /\ loss_terms = 0
    /\ ncombinations = 0
    /\ divisor = 0

----------------------------------------------------------------------------
(* BaselineConvNet (src/Networks.py): shapes                               *)

\* the six convolutions of __init__, lines 10-43
ConvLayers ==
    << [in_channels |-> 1,   out_channels |-> 16,  kernel_size |-> 7, stride |-> 4],
       [in_channels |-> 16,  out_channels |-> 32,  kernel_size |-> 7, stride |-> 3],
       [in_channels |-> 32,  out_channels |-> 64,  kernel_size |-> 5, stride |-> 2],
       [in_channels |-> 64,  out_channels |-> 64,  kernel_size |-> 3, stride |-> 1],
       [in_channels |-> 64,  out_channels |-> 128, kernel_size |-> 3, stride |-> 1],
       [in_channels |-> 128, out_channels |-> 256, kernel_size |-> 3, stride |-> 1] >>

\* a failed call has no shape
NoShape == <<>>

\* nn.Conv1d on <<batch, channels, length>>: the channels must be in_channels
\* and the length at least kernel_size
Conv1d(layer, shape) ==
    IF shape = NoShape \/ shape[2] # layer.in_channels \/ shape[3] < layer.kernel_size
    THEN NoShape
    ELSE <<shape[1], layer.out_channels,
           (shape[3] - layer.kernel_size) \div layer.stride + 1>>

\* nn.BatchNorm1d: in training mode more than one value per channel is needed
BatchNorm1d(shape, train) ==
    IF shape = NoShape \/ (train /\ shape[1] * shape[3] = 1)
    THEN NoShape
    ELSE shape

\* batch_norm_k(activation(conv_k(.))) for k = 1..n; the activation keeps the shape
RECURSIVE ConvBlocks(_, _, _)
ConvBlocks(n, shape, train) ==
    IF n = 0 THEN shape
    ELSE BatchNorm1d(Conv1d(ConvLayers[n], ConvBlocks(n - 1, shape, train)), train)

\* the six blocks, avg_pool to length 1 and nn.Flatten: <<batch, 256>>
Pooled(shape, train) ==
    LET c == ConvBlocks(Len(ConvLayers), shape, train)
    IN  IF c = NoShape THEN NoShape ELSE <<c[1], c[2]>>

\* variant of FinalWidth without the projection to 128
FinalWidthAlt(cls) == IF cls THEN 1 ELSE 256

\* finalLayer, lines 49-56: the width of its output
FinalWidth(cls) == IF cls THEN 1 ELSE 128

\* nn.Linear on the last axis: that axis must be in_features
Linear(in_features, out_features, shape) ==
    IF shape = NoShape \/ shape[Len(shape)] # in_features
    THEN NoShape
    ELSE [k \in 1..Len(shape) |-> IF k = Len(shape) THEN out_features ELSE shape[k]]

\* forward, lines 66-102
ForwardShape(cls, avg, train, shape) ==
    IF cls
    THEN Linear(256, FinalWidth(cls), Pooled(shape, train))
    ELSE LET batch_size == shape[1]
             views == shape[2]
             \* x[:, i, :].unsqueeze(1) through the blocks, the same for every i
             x_i == Pooled(<<batch_size, 1, shape[3]>>, train)
             \* h = torch.empty(batch_size, nviews, 256); h[:, i, :] = x_i
             stacked == IF x_i # <<batch_size, 256>> THEN NoShape
                        ELSE <<batch_size, views, 256>>
             \* h.mean(dim=1, keepdim=True)
             h == IF stacked # NoShape /\ avg THEN <<batch_size, 1, 256>>
                  ELSE stacked
         IN  Linear(256, FinalWidth(cls), Linear(256, 256, h))

NetStart ==
    /\ classification \in BOOLEAN
    /\ avg_embeddings \in BOOLEAN
    /\ training \in BOOLEAN
    /\ x_shape \in (1..MaxBatch) \X (1..MaxViews) \X (1..MaxSeqLen)
    /\ npc = "start"
    /\ h_shape = NoShape

\* forward not called
NetIdle ==
    /\ classification = FALSE
    /\ avg_embeddings = FALSE
    /\ training = FALSE
    /\ x_shape = NoShape
    /\ npc = "idle"
    /\ h_shape = NoShape

\* forward returns h
Forward ==
    /\ npc = "start"
    /\ ForwardShape(classification, avg_embeddings, training, x_shape) # NoShape
    /\ h_shape' = ForwardShape(classification, avg_embeddings, training, x_shape)
    /\ npc' = "done"
    /\ UNCHANGED <<classification, avg_embeddings, training, x_shape>>

\* forward raises: channel mismatch, too short a sequence, or a single value
\* per channel in training mode
ForwardError ==
    /\ npc = "start"
    /\ ForwardShape(classification, avg_embeddings, training, x_shape) = NoShape
    /\ npc' = "error"
    /\ UNCHANGED <<classification, avg_embeddings, training, x_shape, h_shape>>
----------------------------------------------------------------------------
(* SimCLR.train (src/Simclr.py), lines 153-240                             *)

\* the steps of one batch, as they are recorded in trace
BatchOrder ==
    << "check_images", "zero_grad", "encoder1", "encoder2", "cat",
       "check_features", "normalize", "contrastive_loss", "backward",
       "clip_grad_norm", "optimizer.step", "check_loss", "metrics", "n_iter" >>

TrainStart ==
    /\ curr_epochs \in 0..MaxCurrEpochs
    /\ epochs \in 0..MaxEpochs
    /\ warmup_epochs \in 0..MaxWarmup
    /\ checkpoint_freq \in 0..MaxCheckpointFreq
    /\ nbatches \in 0..MaxLoaderLen
    /\ tpc = "start"
    /\ epoch_iter = 0 /\ epoch_counter = 0 /\ epochs_run = 0
    /\ batch_idx = 0 /\ n_iter = 0
    /\ zero_grads = 0 /\ opt_steps = 0 /\ max_norm = 0
    /\ sched_epochs = <<>> /\ gated_epochs = <<>> /\ checkpoints = <<>>
    /\ trace = <<>> /\ printed = <<>>
    /\ images_bad = FALSE /\ features_bad = FALSE /\ loss_bad = FALSE

\* train not called
TrainIdle ==
    /\ curr_epochs = 0 /\ epochs = 0 /\ warmup_epochs = 0
    /\ checkpoint_freq = 0 /\ nbatches = 0
    /\ tpc = "idle"
    /\ epoch_iter = 0 /\ epoch_counter = 0 /\ epochs_run = 0
    /\ batch_idx = 0 /\ n_iter = 0
    /\ zero_grads = 0 /\ opt_steps = 0 /\ max_norm = 0
    /\ sched_epochs = <<>> /\ gated_epochs = <<>> /\ checkpoints = <<>>
    /\ trace = <<>> /\ printed = <<>>
    /\ images_bad = FALSE /\ features_bad = FALSE /\ loss_bad = FALSE

\* what a step of a batch leaves alone
BatchFrame ==
    UNCHANGED <<trainConfig, epoch_iter, epoch_counter, epochs_run,
                sched_epochs, gated_epochs, checkpoints>>

\* lines 160-175: n_iter = 0 and the range of the epoch loop
TrainBegin ==
    /\ tpc = "start"
    /\ n_iter' = 0
    /\ epoch_iter' = curr_epochs + 1
    /\ tpc' = "epoch_top"
    /\ UNCHANGED <<trainConfig, epoch_counter, epochs_run, batch_idx,
                   zero_grads, opt_steps, max_norm, sched_epochs, gated_epochs,
                   checkpoints, trace, printed, images_bad, features_bad, loss_bad>>

\* line 175: the next epoch of range(curr_epochs+1, epochs)
NextEpoch ==
    /\ tpc = "epoch_top"
    /\ epoch_iter < epochs
    /\ epoch_counter' = epoch_iter
    /\ epoch_iter' = epoch_iter + 1
    /\ epochs_run' = epochs_run + 1
    /\ batch_idx' = 0
    /\ tpc' = "batch_top"
    /\ UNCHANGED <<trainConfig, n_iter, zero_grads, opt_steps, max_norm,
                   sched_epochs, gated_epochs, checkpoints, trace, printed,
                   images_bad, features_bad, loss_bad>>

\* line 175 with the range exhausted, line 240
TrainFinish ==
    /\ tpc = "epoch_top"
    /\ epoch_iter >= epochs
    /\ tpc' = "finished"
    /\ UNCHANGED <<trainConfig, epoch_iter, epoch_counter, epochs_run, batch_idx,
                   n_iter, zero_grads, opt_steps, max_norm, sched_epochs,
                   gated_epochs, checkpoints, trace, printed,
                   images_bad, features_bad, loss_bad>>

\* lines 177-183: the next batch of the loader, moved to the device
NextBatch ==
    /\ tpc = "batch_top"
    /\ batch_idx < nbatches
    /\ batch_idx' = batch_idx + 1
    /\ images_bad' \in BOOLEAN
    /\ features_bad' = FALSE
    /\ loss_bad' = FALSE
    /\ trace' = <<>>
    /\ printed' = <<>>
    /\ tpc' = "check_images"
    /\ BatchFrame
    /\ UNCHANGED <<n_iter, zero_grads, opt_steps, max_norm>>

\* line 177 with the loader exhausted
EndBatches ==
    /\ tpc = "batch_top"
    /\ batch_idx >= nbatches
    /\ tpc' = "warmup_gate"
    /\ BatchFrame
    /\ UNCHANGED <<batch_idx, n_iter, zero_grads, opt_steps, max_norm, trace,
                   printed, images_bad, features_bad, loss_bad>>

\* a step of the batch that only moves on: from, the name recorded, to
Advance(from, name, to) ==
    /\ tpc = from
    /\ trace' = Append(trace, name)
    /\ tpc' = to

\* lines 185-187: the check of the images; code.interact on a detection
CheckImages ==
    /\ Advance("check_images", "check_images",
               IF images_bad THEN "interact1" ELSE "zero_grad")
    /\ printed' = IF images_bad THEN Append(printed, 1) ELSE printed
    /\ BatchFrame
    /\ UNCHANGED <<batch_idx, n_iter, zero_grads, opt_steps, max_norm,
                   images_bad, features_bad, loss_bad>>

\* variant of ZeroGrad in which optimizer.zero_grad() is not called
ZeroGradAlt ==
    /\ tpc = "zero_grad"
    /\ tpc' = "encoder1"
    /\ BatchFrame
    /\ UNCHANGED <<batch_idx, n_iter, zero_grads, opt_steps, max_norm, trace,
                   printed, images_bad, features_bad, loss_bad>>

\* line 189
ZeroGrad ==
    /\ Advance("zero_grad", "zero_grad", "encoder1")
    /\ zero_grads' = zero_grads + 1
    /\ BatchFrame
    /\ UNCHANGED <<batch_idx, n_iter, opt_steps, max_norm, printed,
                   images_bad, features_bad, loss_bad>>

\* line 192
Encoder1 ==
    /\ Advance("encoder1", "encoder1", "encoder2")
    /\ BatchFrame
    /\ UNCHANGED <<batch_idx, n_iter, zero_grads, opt_steps, max_norm, printed,
                   images_bad, features_bad, loss_bad>>

\* line 193
Encoder2 ==
    /\ Advance("encoder2", "encoder2", "cat")
    /\ BatchFrame
    /\ UNCHANGED <<batch_idx, n_iter, zero_grads, opt_steps, max_norm, printed,
                   images_bad, features_bad, loss_bad>>

\* line 194: the features are what self.model returned for the two views;
\* the encoder is the module given to __init__, and non-finite images need
\* not give non-finite features (a sample no convolution window reads)
Cat ==
    /\ Advance("cat", "cat", "check_features")
    /\ features_bad' \in BOOLEAN
    /\ BatchFrame
    /\ UNCHANGED <<batch_idx, n_iter, zero_grads, opt_steps, max_norm, printed,
                   images_bad, loss_bad>>

\* lines 195-197
CheckFeatures ==
    /\ Advance("check_features", "check_features",
               IF features_bad THEN "interact2" ELSE "normalize")
    /\ printed' = IF features_bad THEN Append(printed, 2) ELSE printed
    /\ BatchFrame
    /\ UNCHANGED <<batch_idx, n_iter, zero_grads, opt_steps, max_norm,
                   images_bad, features_bad, loss_bad>>

\* line 198
Normalize ==
    /\ Advance("normalize", "normalize", "contrastive_loss")
    /\ BatchFrame
    /\ UNCHANGED <<batch_idx, n_iter, zero_grads, opt_steps, max_norm, printed,
                   images_bad, features_bad, loss_bad>>

\* line 199: non-finite features give a non-finite loss
ContrastiveLoss ==
    /\ Advance("contrastive_loss", "contrastive_loss", "backward")
    /\ loss_bad' \in (IF features_bad THEN {TRUE} ELSE BOOLEAN)
    /\ BatchFrame
    /\ UNCHANGED <<batch_idx, n_iter, zero_grads, opt_steps, max_norm, printed,
                   images_bad, features_bad>>

\* line 202
Backward ==
    /\ Advance("backward", "backward", "clip_grad_norm")
    /\ BatchFrame
    /\ UNCHANGED <<batch_idx, n_iter, zero_grads, opt_steps, max_norm, printed,
                   images_bad, features_bad, loss_bad>>

\* line 203: the ceiling of the gradient norm
ClipCeiling == 1

ClipGradNorm ==
    /\ Advance("clip_grad_norm", "clip_grad_norm", "optimizer.step")
    /\ max_norm' = ClipCeiling
    /\ BatchFrame
    /\ UNCHANGED <<batch_idx, n_iter, zero_grads, opt_steps, printed,
                   images_bad, features_bad, loss_bad>>

\* line 204
OptimizerStep ==
    /\ Advance("optimizer.step", "optimizer.step", "check_loss")
    /\ opt_steps' = opt_steps + 1
    /\ BatchFrame
    /\ UNCHANGED <<batch_idx, n_iter, zero_grads, max_norm, printed,
                   images_bad, features_bad, loss_bad>>

\* lines 206-208
CheckLoss ==
    /\ Advance("check_loss", "check_loss",
               IF loss_bad THEN "interact3" ELSE "metrics")
    /\ printed' = IF loss_bad THEN Append(printed, 3) ELSE printed
    /\ BatchFrame
    /\ UNCHANGED <<batch_idx, n_iter, zero_grads, opt_steps, max_norm,
                   images_bad, features_bad, loss_bad>>

\* lines 210-219
Metrics ==
    /\ Advance("metrics", "metrics", "n_iter")
    /\ BatchFrame
    /\ UNCHANGED <<batch_idx, n_iter, zero_grads, opt_steps, max_norm, printed,
                   images_bad, features_bad, loss_bad>>

\* line 221
NIterIncrement ==
    /\ Advance("n_iter", "n_iter", "batch_top")
    /\ n_iter' = n_iter + 1
    /\ BatchFrame
    /\ UNCHANGED <<batch_idx, zero_grads, opt_steps, max_norm, printed,
                   images_bad, features_bad, loss_bad>>

\* variant of AfterInteract that skips the rest of the batch
AfterInteractAlt(point) == "batch_top"

\* where train goes on when the interactive session of a detection point
\* returns (end of input): the statement after it
AfterInteract(point) ==
    IF point = "interact1" THEN "zero_grad"
    ELSE IF point = "interact2" THEN "normalize"
    ELSE "metrics"

\* lines 187, 197, 208: code.interact returns
InteractReturn ==
    /\ tpc \in {"interact1", "interact2", "interact3"}
    /\ tpc' = AfterInteract(tpc)
    /\ BatchFrame
    /\ UNCHANGED <<batch_idx, n_iter, zero_grads, opt_steps, max_norm, trace,
                   printed, images_bad, features_bad, loss_bad>>

\* lines 187, 197, 208: exit() in the interactive session raises SystemExit
InteractExit ==
    /\ tpc \in {"interact1", "interact2", "interact3"}
    /\ tpc' = "exited"
    /\ BatchFrame
    /\ UNCHANGED <<batch_idx, n_iter, zero_grads, opt_steps, max_norm, trace,
                   printed, images_bad, features_bad, loss_bad>>

\* variant of PastWarmup with a strict comparison
PastWarmupAlt(epoch, warmup) == epoch > warmup

\* line 225: the test that gates the scheduler
PastWarmup(epoch, warmup) == epoch >= warmup

\* lines 225-226
WarmupGate ==
    /\ tpc = "warmup_gate"
    /\ gated_epochs' = Append(gated_epochs, epoch_counter)
    /\ sched_epochs' = IF PastWarmup(epoch_counter, warmup_epochs)
                       THEN Append(sched_epochs, epoch_counter)
                       ELSE sched_epochs
    /\ tpc' = "epoch_log"
    /\ UNCHANGED <<trainConfig, epoch_iter, epoch_counter, epochs_run, batch_idx,
                   n_iter, zero_grads, opt_steps, max_norm, checkpoints, trace,
                   printed, images_bad, features_bad, loss_bad>>

\* line 227: loss, top1 and top5 are bound once a batch has been processed
EpochLog ==
    /\ tpc = "epoch_log"
    /\ tpc' = IF n_iter > 0 THEN "checkpoint" ELSE "crashed"
    /\ UNCHANGED <<trainConfig, epoch_iter, epoch_counter, epochs_run, batch_idx,
                   n_iter, zero_grads, opt_steps, max_norm, sched_epochs,
                   gated_epochs, checkpoints, trace, printed,
                   images_bad, features_bad, loss_bad>>

\* variant of CheckpointDue without the test of the final epoch
CheckpointDueAlt(epoch, freq, total) == epoch % freq = 0

\* line 230: the test that decides on a checkpoint (checkpoint_freq # 0)
CheckpointDue(epoch, freq, total) == epoch % freq = 0 \/ epoch + 1 = total

\* lines 230-239; epoch_counter % 0 raises ZeroDivisionError
Checkpoint ==
    /\ tpc = "checkpoint"
    /\ IF checkpoint_freq = 0
       THEN /\ tpc' = "crashed"
            /\ UNCHANGED checkpoints
       ELSE /\ tpc' = "epoch_top"
            /\ checkpoints' =
                 IF CheckpointDue(epoch_counter, checkpoint_freq, epochs)
                 THEN Append(checkpoints, epoch_counter)
                 ELSE checkpoints
    /\ UNCHANGED <<trainConfig, epoch_iter, epoch_counter, epochs_run, batch_idx,
                   n_iter, zero_grads, opt_steps, max_norm, sched_epochs,
                   gated_epochs, trace, printed,
                   images_bad, features_bad, loss_bad>>
----------------------------------------------------------------------------
(* Specifications: one per operation                                       *)

LossInit == LossStart /\ NetIdle /\ TrainIdle

LossNext ==
    \/ BuildIndex /\ UNCHANGED <<netVars, trainVars>>
    \/ LossIteration /\ UNCHANGED <<netVars, trainVars>>
    \/ LossReturn /\ UNCHANGED <<netVars, trainVars>>
    \/ LossUnbound /\ UNCHANGED <<netVars, trainVars>>

SpecLoss == LossInit /\ [][LossNext]_vars

NetInit == NetStart /\ LossIdle /\ TrainIdle

NetNext ==
    \/ Forward /\ UNCHANGED <<lossVars, trainVars>>
    \/ ForwardError /\ UNCHANGED <<lossVars, trainVars>>

SpecNet == NetInit /\ [][NetNext]_vars

TrainInit == TrainStart /\ LossIdle /\ NetIdle

TrainNext ==
    \/ TrainBegin /\ UNCHANGED <<lossVars, netVars>>
    \/ NextEpoch /\ UNCHANGED <<lossVars, netVars>>
    \/ TrainFinish /\ UNCHANGED <<lossVars, netVars>>
    \/ NextBatch /\ UNCHANGED <<lossVars, netVars>>
    \/ EndBatches /\ UNCHANGED <<lossVars, netVars>>
    \/ CheckImages /\ UNCHANGED <<lossVars, netVars>>
    \/ ZeroGrad /\ UNCHANGED <<lossVars, netVars>>
    \/ Encoder1 /\ UNCHANGED <<lossVars, netVars>>
    \/ Encoder2 /\ UNCHANGED <<lossVars, netVars>>
    \/ Cat /\ UNCHANGED <<lossVars, netVars>>
    \/ CheckFeatures /\ UNCHANGED <<lossVars, netVars>>
    \/ Normalize /\ UNCHANGED <<lossVars, netVars>>
    \/ ContrastiveLoss /\ UNCHANGED <<lossVars, netVars>>
    \/ Backward /\ UNCHANGED <<lossVars, netVars>>
    \/ ClipGradNorm /\ UNCHANGED <<lossVars, netVars>>
    \/ OptimizerStep /\ UNCHANGED <<lossVars, netVars>>
    \/ CheckLoss /\ UNCHANGED <<lossVars, netVars>>
    \/ Metrics /\ UNCHANGED <<lossVars, netVars>>
    \/ NIterIncrement /\ UNCHANGED <<lossVars, netVars>>
    \/ InteractReturn /\ UNCHANGED <<lossVars, netVars>>
    \/ InteractExit /\ UNCHANGED <<lossVars, netVars>>
    \/ WarmupGate /\ UNCHANGED <<lossVars, netVars>>
    \/ EpochLog /\ UNCHANGED <<lossVars, netVars>>
    \/ Checkpoint /\ UNCHANGED <<lossVars, netVars>>

SpecTrain == TrainInit /\ [][TrainNext]_vars


----------------------------------------------------------------------------
(* Properties of contrastive_loss, checked under SpecLoss                  *)

\* the identity of the batch row numbered i (from 0)
IdAt(i) == patientIds[i + 1]

BatchRows == 0..(Len(patientIds) - 1)

AllUnique ==
    \A i, j \in BatchRows : i # j => IdAt(i) # IdAt(j)

\* the vector with the rows a and b exchanged
SwapRows(pids, a, b) ==
    [k \in 1..Len(pids) |->
        IF k = a + 1 THEN pids[b + 1] ELSE IF k = b + 1 THEN pids[a + 1] ELSE pids[k]]

\* C1: once the index is built, the upper index set is exactly the set of
\* cells (i,j), i < j, whose rows carry equal identities, and the lower
\* index set is exactly the set of such cells with i > j.
C1_IndexIsIdentityEquality ==
    lpc # "start" =>
        /\ Pairs(rows1, cols1) =
             {<<i, j>> \in BatchRows \X BatchRows : i < j /\ IdAt(i) = IdAt(j)}
        /\ Pairs(rows2, cols2) =
             {<<i, j>> \in BatchRows \X BatchRows : i > j /\ IdAt(i) = IdAt(j)}

\* C2: the upper and the lower index sets are disjoint, neither holds a
\* diagonal coordinate, and exchanging two rows of equal identity leaves the
\* number of entries of each index unchanged.
C2_DisjointOffDiagonal ==
    lpc # "start" =>
        /\ Pairs(rows1, cols1) \cap Pairs(rows2, cols2) = {}
        /\ \A i \in BatchRows :
             <<i, i>> \notin Pairs(rows1, cols1) \cup Pairs(rows2, cols2)
        /\ Len(rows1) = Len(cols1) /\ Len(rows2) = Len(cols2)
        /\ \A a, b \in BatchRows :
             (a < b /\ IdAt(a) = IdAt(b)) =>
                /\ Len(UpperIndex(SwapRows(patientIds, a, b))[1]) = Len(rows1)
                /\ Len(LowerIndex(SwapRows(patientIds, a, b))[1]) = Len(rows2)

\* the index has been built for a batch with two rows of one identity
C2_Witness ==
    /\ lpc = "loop"
    /\ Len(rows1) > 0 /\ Len(rows2) > 0
    /\ \E a, b \in BatchRows : a # b /\ IdAt(a) = IdAt(b)
    /\ \E a, b \in BatchRows : IdAt(a) # IdAt(b)

\* C3: when every identity of the batch is unique, both index sets are
\* empty, each view pair adds only the two diagonal terms, the term count
\* is 2 and no term that is not a number enters the loss.
C3_UniqueIdentitiesOnlyDiagonalTerms ==
    (AllUnique /\ lpc = "done") =>
        /\ rows1 = <<>> /\ rows2 = <<>>
        /\ loss_terms = 2
        /\ Len(loss) = 2 * ncombinations
        /\ \A k \in 1..Len(loss) :
             loss[k].term \in {"loss_diag1", "loss_diag2"} /\ ~loss[k].nan

\* C4: at the return, the divisor loss_terms * ncombinations equals the
\* number of terms accumulated over all the view pairs, each pair having
\* added 2 terms, plus 1 for a non-empty upper index, plus 1 for a
\* non-empty lower index.
C4_DivisorIsTermCount ==
    /\ lpc = "error" => nviews < 2
    /\ lpc = "done" =>
        /\ nviews >= 2
        /\ divisor = Len(loss)
        /\ ncombinations = (nviews * (nviews - 1)) \div 2
        /\ \A p \in {<<a, b>> \in (0..(nviews - 1)) \X (0..(nviews - 1)) : a < b} :
             Cardinality({k \in 1..Len(loss) :
                            loss[k].lead1 = p[1] /\ loss[k].lead2 = p[2]})
               = 2 + (IF rows1 # <<>> THEN 1 ELSE 0) + (IF rows2 # <<>> THEN 1 ELSE 0)

\* the loss has returned after more than one view pair, with an empty index
C4_Witness ==
    /\ lpc = "done"
    /\ ncombinations >= 2
    /\ rows1 = <<>>
    /\ divisor = 2 * ncombinations

----------------------------------------------------------------------------
(* Properties of BaselineConvNet.forward, checked under SpecNet            *)

\* the length left after the six convolutions, 0 when the input is too short
FinalLength(length) ==
    LET c == ConvBlocks(Len(ConvLayers), <<2, 1, length>>, FALSE)
    IN  IF c = NoShape THEN 0 ELSE c[3]

\* C8: the shape forward returns is fixed by the mode: <<batch, 1>> in
\* classification mode, <<batch, 1, 128>> with avg_embeddings and
\* <<batch, num_views, 128>> otherwise, whatever the batch size and the
\* number of views; outside classification mode forward returns for every
\* batch size and every number of views once the sequence is long enough.
C8_OutputShapeFixedByMode ==
    /\ npc = "done" =>
         h_shape = IF classification THEN <<x_shape[1], 1>>
                   ELSE IF avg_embeddings THEN <<x_shape[1], 1, 128>>
                   ELSE <<x_shape[1], x_shape[2], 128>>
    /\ (npc \in {"done", "error"} /\ ~classification /\ FinalLength(x_shape[3]) >= 2)
         => npc = "done"

\* forward has returned the embeddings of several views of several rows
C8_Witness ==
    /\ npc = "done"
    /\ ~classification /\ ~avg_embeddings
    /\ x_shape[1] >= 2 /\ x_shape[2] >= 2
    /\ h_shape = <<x_shape[1], x_shape[2], 128>>

----------------------------------------------------------------------------
(* Properties of SimCLR.train, checked under SpecTrain                     *)

Range(seq) == {seq[k] : k \in 1..Len(seq)}

IsPrefix(a, b) == Len(a) <= Len(b) /\ \A k \in 1..Len(a) : a[k] = b[k]

\* train is inside the body of the batch loop
InBatch ==
    tpc \in Range(BatchOrder) \cup {"interact1", "interact2", "interact3", "exited"}

\* line 225 has not been reached in the current epoch
BeforeGate == InBatch \/ tpc \in {"batch_top", "warmup_gate"}

\* C5: the scheduler steps only at the end of an epoch, never inside the
\* batch loop, at most once per epoch, never for an epoch whose index is
\* below warmup_epochs, and exactly once at the end of every epoch whose
\* index has reached warmup_epochs.
C5_SchedulerGatedByWarmup ==
    /\ gated_epochs = [k \in 1..Len(gated_epochs) |-> curr_epochs + k]
    /\ Len(gated_epochs) = epochs_run - (IF BeforeGate THEN 1 ELSE 0)
    /\ sched_epochs = SelectSeq(gated_epochs, LAMBDA e : e >= warmup_epochs)
    /\ \A k \in 1..Len(sched_epochs) :
         /\ sched_epochs[k] >= warmup_epochs
         /\ \A m \in 1..Len(sched_epochs) : sched_epochs[m] = sched_epochs[k] => m = k
    /\ BeforeGate => epoch_counter \notin Range(sched_epochs)

\* train has finished with epochs both inside and past the warmup
C5_Witness ==
    /\ tpc = "finished"
    /\ warmup_epochs >= 2
    /\ Len(sched_epochs) >= 2
    /\ Len(sched_epochs) < Len(gated_epochs)

\* the epochs whose line 230 has been evaluated
DecidedEpochs ==
    IF tpc \in {"epoch_log", "checkpoint", "crashed"}
    THEN SubSeq(gated_epochs, 1, Len(gated_epochs) - 1)
    ELSE gated_epochs

\* C6 as stated: whenever train reaches its completion log, a checkpoint
\* has been written, for all values of curr_epochs, epochs, checkpoint_freq.
C6_CheckpointAtCompletion ==
    tpc = "finished" => checkpoints # <<>>

\* C6 amended: a checkpoint is written at the end of exactly the epochs
\* whose index is a multiple of checkpoint_freq or is epochs - 1; when train
\* reaches its completion log after at least one epoch, the last checkpoint
\* is that of the final epoch, and when no epoch was executed none is written.
C6_CheckpointAtFinalEpoch ==
    /\ checkpoint_freq = 0 => checkpoints = <<>>
    /\ checkpoint_freq # 0 =>
         checkpoints = SelectSeq(DecidedEpochs,
                          LAMBDA e : e % checkpoint_freq = 0 \/ e = epochs - 1)
    /\ (tpc = "finished" /\ epochs_run > 0) =>
         /\ checkpoints # <<>>
         /\ checkpoints[Len(checkpoints)] = epochs - 1
    /\ (tpc = "finished" /\ epochs_run = 0) =>
         (checkpoints = <<>> /\ epochs <= curr_epochs + 1)

\* train has finished with a checkpoint of the cadence and one of the final epoch
C6_Witness ==
    /\ tpc = "finished"
    /\ Len(checkpoints) = 2
    /\ checkpoints[1] % checkpoint_freq = 0
    /\ checkpoints[2] % checkpoint_freq # 0
    /\ checkpoints[2] = epochs - 1

\* C7: a fresh run (curr_epochs = 0) has executed epochs iterations of the
\* epoch loop when the completion marker is logged.
C7_ConfiguredEpochsExecuted ==
    (tpc = "finished" /\ curr_epochs = 0) => epochs_run = epochs

\* the training steps of a batch, in the order of the source
StepOrder ==
    << "zero_grad", "encoder1", "encoder2", "cat", "normalize",
       "contrastive_loss", "backward", "clip_grad_norm", "optimizer.step" >>

StepsOf(seq) == SelectSeq(seq, LAMBDA name : name \in Range(StepOrder))

\* the batches taken from the loader since train began
BatchesStarted == IF epochs_run = 0 THEN 0 ELSE (epochs_run - 1) * nbatches + batch_idx

\* C9: the steps of a batch happen in the order zero_grad, encoder on view
\* 1, encoder on view 2, concatenation, normalisation, contrastive_loss,
\* backward, clipping to 1.0, optimizer.step; a batch has one zero_grad and
\* one optimizer.step, and n_iter grows by one per batch.
C9_BatchStepOrder ==
    /\ IsPrefix(StepsOf(trace), StepOrder)
    /\ (tpc = "batch_top" /\ n_iter > 0) => StepsOf(trace) = StepOrder
    /\ n_iter = BatchesStarted - (IF InBatch THEN 1 ELSE 0)
    /\ zero_grads = n_iter + (IF InBatch /\ "zero_grad" \in Range(trace) THEN 1 ELSE 0)
    /\ opt_steps = n_iter + (IF InBatch /\ "optimizer.step" \in Range(trace) THEN 1 ELSE 0)
    /\ "clip_grad_norm" \in Range(trace) => max_norm = 1

\* the second batch of an epoch has been processed
C9_Witness ==
    /\ tpc = "batch_top"
    /\ batch_idx = 2
    /\ n_iter >= 2
    /\ StepsOf(trace) = StepOrder
    /\ zero_grads = n_iter /\ opt_steps = n_iter

\* C10: the images are checked before zero_grad and the features before the
\* loss is computed, but the loss is checked only after backward, clipping
\* and optimizer.step; a detected non-finite loss has already been applied
\* by the optimizer; and when the session of a detection point returns,
\* train goes on with the rest of the same batch.
C10_DetectionPoints ==
    /\ tpc = "interact1" => trace = <<"check_images">>
    /\ tpc = "interact2" =>
         /\ trace[Len(trace)] = "check_features"
         /\ {"encoder1", "encoder2", "cat"} \subseteq Range(trace)
         /\ Range(trace) \cap {"normalize", "contrastive_loss"} = {}
    /\ tpc = "interact3" =>
         /\ trace[Len(trace)] = "check_loss"
         /\ {"contrastive_loss", "backward", "clip_grad_norm", "optimizer.step"}
              \subseteq Range(trace)
         /\ opt_steps = n_iter + 1
    /\ 3 \in Range(printed) => "optimizer.step" \in Range(trace)
    /\ IsPrefix(trace, BatchOrder)
    /\ (printed # <<>> /\ ~InBatch) => trace = BatchOrder
    /\ (1 \in Range(printed) /\ tpc \notin {"interact1", "exited"}) =>
         (tpc = "zero_grad" \/ "zero_grad" \in Range(trace))
    /\ (2 \in Range(printed) /\ tpc \notin {"interact2", "exited"}) =>
         (tpc = "normalize" \/ "normalize" \in Range(trace))
    /\ (3 \in Range(printed) /\ tpc \notin {"interact3", "exited"}) =>
         (tpc = "metrics" \/ "metrics" \in Range(trace))

\* a batch in which the three detection points fired has been completed
C10_Witness ==
    /\ tpc = "batch_top"
    /\ printed = <<1, 2, 3>>
    /\ trace = BatchOrder
    /\ opt_steps = n_iter

====
